---- MODULE Spec2Model ----
(***************************************************************************)
(* Model of install-as-us-variant.py: the installer that appends the       *)
(* Carbon symbol blocks to the "us" symbols file and registers the Carbon  *)
(* variants in the XKB rules documents, and the matching uninstaller.      *)
(*                                                                         *)
(* A text file is the sequence of its bytes, abstracted to tokens: "\n",   *)
(* " ", and one token per piece of text the program tells apart.  A rules  *)
(* document is the element tree ElementTree parses it to, plus one flag    *)
(* telling whether the bytes on disk are the serializer's output.          *)
(***************************************************************************)
EXTENDS Integers, Sequences, FiniteSets, TLC

\* ------------------------------------------------------------------ bounds
MaxRuns == 3            \* invocations of the tool in one behaviour
MaxLines == 3           \* lines of the flat file before the first run
MaxVariants == 2        \* variant children of the base layout before the first run
MaxClock == 1           \* last clock second (timestamps are 0..MaxClock)

\* ------------------------------------------------------------------ tokens
NL == "\n"
CR == "\r"
SP == " "
Whitespace == {NL, CR, SP}
\* the literal texts   xkb_symbols "carbon"   and   xkb_symbols "carbon-angle"
HdrCarbon == "xkb_symbols <carbon>"
HdrAngle == "xkb_symbols <carbon-angle>"
\* the header of a block the tool does not manage:   xkb_symbols "fr"
HdrOther == "xkb_symbols <fr>"
Closing == "};"
Brace == "{"
Key == "key"

\* ------------------------------------------------------------------ program constants
VARIANTS_TO_INSTALL ==
    << [name |-> "carbon", desc |-> "English (Carbon)"],
       [name |-> "carbon-angle", desc |-> "English (Carbon, Angle Mod)"] >>

BASE_LAYOUT == "us"

TargetPath == "symbols/us"
XKB_RULES_FILES == << "rules/evdev.xml", "rules/base.xml" >>
NumDocs == Len(XKB_RULES_FILES)
Paths == {TargetPath} \cup {XKB_RULES_FILES[i] : i \in 1..NumDocs}

ManagedIds == {VARIANTS_TO_INSTALL[i].name : i \in 1..Len(VARIANTS_TO_INSTALL)}

\* ------------------------------------------------------------------ str methods
RECURSIVE lstrip(_)
lstrip(s) == IF s # <<>> /\ Head(s) \in Whitespace THEN lstrip(Tail(s)) ELSE s

RECURSIVE rstrip(_)
rstrip(s) ==
    IF s # <<>> /\ s[Len(s)] \in Whitespace THEN rstrip(SubSeq(s, 1, Len(s) - 1)) ELSE s

strip(s) == rstrip(lstrip(s))

startswith(s, p) == Len(s) >= Len(p) /\ SubSeq(s, 1, Len(p)) = p

\* What a file opened with open(path, "r") yields for the bytes `data`: text
\* mode reads "\r\n" and "\r" as "\n".
RECURSIVE Translate(_)
Translate(data) ==
    IF data = <<>> THEN <<>>
    ELSE IF Head(data) # CR THEN <<Head(data)>> \o Translate(Tail(data))
    ELSE IF Len(data) > 1 /\ data[2] = NL THEN <<NL>> \o Translate(Tail(Tail(data)))
    ELSE <<NL>> \o Translate(Tail(data))

\* f.read()
read(data) == IF \A i \in 1..Len(data) : data[i] # CR THEN data ELSE Translate(data)

\* f.readlines(): the lines of the text, each keeping its "\n"; `cur` is the
\* line collected so far.
RECURSIVE SplitFrom(_, _)
SplitFrom(data, cur) ==
    IF data = <<>> THEN (IF cur = <<>> THEN <<>> ELSE <<cur>>)
    ELSE IF Head(data) = NL
         THEN <<Append(cur, NL)>> \o SplitFrom(Tail(data), <<>>)
         ELSE SplitFrom(Tail(data), Append(cur, Head(data)))

readlines(data) == SplitFrom(read(data), <<>>)

\* f.writelines(lines): the concatenation of the lines
RECURSIVE writelines(_)
writelines(lines) ==
    IF lines = <<>> THEN <<>> ELSE Head(lines) \o writelines(Tail(lines))

\* ------------------------------------------------------------------ flat file
\* mutant: the test for the second descriptor (line 149) left out
IsManagedHeader_CarbonOnly(line) == startswith(strip(line), <<HdrCarbon>>)

IsManagedHeader(line) ==
    \/ startswith(strip(line), <<HdrCarbon>>)
    \/ startswith(strip(line), <<HdrAngle>>)

\* mutant: the closing line is one that holds the marker and nothing else
\* (== for startswith at line 152)
IsClosing_Exact(line) == strip(line) = <<Closing>>

IsClosing(line) == startswith(strip(line), <<Closing>>)

\* mutant: the closing line does not clear the flag (line 152 left out)
RECURSIVE ScanLines_NoReset(_, _)
ScanLines_NoReset(lines, skip) ==
    IF lines = <<>> THEN <<>>
    ELSE LET line == Head(lines)
             skip1 == IF IsManagedHeader(line) THEN TRUE ELSE skip
         IN  IF skip1 /\ IsClosing(line) THEN ScanLines_NoReset(Tail(lines), skip1)
             ELSE IF ~skip1 THEN <<line>> \o ScanLines_NoReset(Tail(lines), skip1)
             ELSE ScanLines_NoReset(Tail(lines), skip1)

\* mutant: the closing line clears the flag but is not skipped (line 153 left
\* out), so it is kept
RECURSIVE ScanLines_KeepClosing(_, _)
ScanLines_KeepClosing(lines, skip) ==
    IF lines = <<>> THEN <<>>
    ELSE LET line == Head(lines)
             skip1 == IF IsManagedHeader(line) THEN TRUE ELSE skip
             skip2 == IF skip1 /\ IsClosing(line) THEN FALSE ELSE skip1
         IN  IF ~skip2 THEN <<line>> \o ScanLines_KeepClosing(Tail(lines), skip2)
             ELSE ScanLines_KeepClosing(Tail(lines), skip2)

\* mutant: the header of a block of the host clears the flag
RECURSIVE ScanLines_HeaderEndsBlock(_, _)
ScanLines_HeaderEndsBlock(lines, skip) ==
    IF lines = <<>> THEN <<>>
    ELSE LET line == Head(lines)
             skip1 == IF IsManagedHeader(line) THEN TRUE
                      ELSE IF startswith(strip(line), <<HdrOther>>) THEN FALSE
                      ELSE skip
         IN  IF skip1 /\ IsClosing(line) THEN ScanLines_HeaderEndsBlock(Tail(lines), FALSE)
             ELSE IF ~skip1 THEN <<line>> \o ScanLines_HeaderEndsBlock(Tail(lines), skip1)
             ELSE ScanLines_HeaderEndsBlock(Tail(lines), skip1)

\* mutant: the flag is tested before the header sets it (lines 154-155 moved
\* above lines 148-150), so the header line of a block is kept
RECURSIVE ScanLines_KeepHeader(_, _)
ScanLines_KeepHeader(lines, skip) ==
    IF lines = <<>> THEN <<>>
    ELSE LET line == Head(lines)
             skip1 == IF IsManagedHeader(line) THEN TRUE ELSE skip
         IN  IF skip1 /\ IsClosing(line) THEN ScanLines_KeepHeader(Tail(lines), FALSE)
             ELSE IF ~skip THEN <<line>> \o ScanLines_KeepHeader(Tail(lines), skip1)
             ELSE ScanLines_KeepHeader(Tail(lines), skip1)

\* the loop of remove(): the lines kept, scanning `lines` with the flag `skip`
RECURSIVE ScanLines(_, _)
ScanLines(lines, skip) ==
    IF lines = <<>> THEN <<>>
    ELSE LET line == Head(lines)
             skip1 == IF IsManagedHeader(line) THEN TRUE ELSE skip
         IN  IF skip1 /\ IsClosing(line) THEN ScanLines(Tail(lines), FALSE)
             ELSE IF ~skip1 THEN <<line>> \o ScanLines(Tail(lines), skip1)
             ELSE ScanLines(Tail(lines), skip1)

\* remove(): the new contents of the target file
RemoveBlocks(data) == writelines(ScanLines(readlines(data), FALSE))

\* install(): the contents of the target file after the append
AppendBlocks(data, blob) == data \o <<NL, NL>> \o read(blob)

\* ------------------------------------------------------------------ rules documents
\* A variant element is its configItem/name and configItem/description texts;
\* a layout element is its configItem/name text, whether it has a variantList
\* child, and the variant children of that list, in document order.
Variant(n, d) == [name |-> n, desc |-> d]
Layout(n, has, vs) == [name |-> n, hasVL |-> has, variants |-> vs]

\* lines 55-60: the index of the first layout named BASE_LAYOUT, 0 when none
FindBaseLayout(layouts) ==
    LET hits == {i \in 1..Len(layouts) : layouts[i].name = BASE_LAYOUT}
    IN  IF hits = {} THEN 0 ELSE CHOOSE i \in hits : \A j \in hits : i <= j

\* mutant: only the first existing variant named `name` is removed
RemoveExisting_FirstOnly(variants, name) ==
    LET hits == {j \in 1..Len(variants) : variants[j].name = name}
        first == CHOOSE j \in hits : \A h \in hits : j <= h
    IN  IF hits = {} THEN variants
        ELSE SubSeq(variants, 1, first - 1) \o SubSeq(variants, first + 1, Len(variants))

\* lines 71-76 with 79-80 / 84-85: the children left once every existing
\* variant named `name` is removed
RemoveExisting(variants, name) ==
    LET Keep(v) == v.name # name IN SelectSeq(variants, Keep)

\* mutant: the description element is given the descriptor's name (line 92
\* with var_info['name'])
ReconcileVariant_NameAsDescription(variants, d, act) ==
    IF act = "remove" THEN RemoveExisting(variants, d.name)
    ELSE Append(RemoveExisting(variants, d.name), Variant(d.name, d.name))

\* mutant: the new variant takes the place of the first existing one of its
\* name, and is appended only when there is none
ReconcileVariant_InPlace(variants, d, act) ==
    LET hits == {j \in 1..Len(variants) : variants[j].name = d.name}
        first == CHOOSE j \in hits : \A h \in hits : j <= h
    IN  IF act = "remove" THEN RemoveExisting(variants, d.name)
        ELSE IF hits = {} THEN Append(variants, Variant(d.name, d.desc))
        ELSE SubSeq(variants, 1, first - 1) \o <<Variant(d.name, d.desc)>>
             \o RemoveExisting(SubSeq(variants, first + 1, Len(variants)), d.name)

\* lines 70-94, one pass of the loop body for descriptor d
ReconcileVariant(variants, d, act) ==
    IF act = "remove" THEN RemoveExisting(variants, d.name)
    ELSE Append(RemoveExisting(variants, d.name), Variant(d.name, d.desc))

\* line 70: the loop over VARIANTS_TO_INSTALL, from descriptor i on
RECURSIVE ReconcileFrom(_, _, _)
ReconcileFrom(variants, i, act) ==
    IF i > Len(VARIANTS_TO_INSTALL) THEN variants
    ELSE ReconcileFrom(ReconcileVariant(variants, VARIANTS_TO_INSTALL[i], act), i + 1, act)

\* mutant: the variantList is created whatever the action (line 67 without
\* its second condition)
PatchLayout_AlwaysCreate(layout, act) ==
    Layout(layout.name, TRUE, ReconcileFrom(layout.variants, 1, act))

\* lines 66-94 on the base layout
PatchLayout(layout, act) ==
    Layout(layout.name,
           layout.hasVL \/ act = "install",
           ReconcileFrom(layout.variants, 1, act))

\* mutant: the variants are reconciled under every layout, not the base one
PatchTree_EveryLayout(layouts, act) ==
    [i \in 1..Len(layouts) |-> PatchLayout(layouts[i], act)]

\* lines 55-97: the tree written back
PatchTree(layouts, act) ==
    [i \in 1..Len(layouts) |->
        IF i = FindBaseLayout(layouts) THEN PatchLayout(layouts[i], act) ELSE layouts[i]]

\* a rules file on disk: `serialized` tells that its bytes are what
\* ET.indent + tree.write produce (declaration, two-space indent, no DOCTYPE,
\* no comments) rather than the host's original bytes
Doc(ex, wf, ls, ser) == [exists |-> ex, wellFormed |-> wf, layouts |-> ls, serialized |-> ser]

\* lines 96-97
Serialize(layouts) == Doc(TRUE, TRUE, layouts, TRUE)

\* ------------------------------------------------------------------ inputs
\* every sequence over S of length at most n
RECURSIVE SeqsUpTo(_, _)
SeqsUpTo(S, n) ==
    IF n = 0 THEN {<<>>}
    ELSE LET P == SeqsUpTo(S, n - 1)
         IN  P \cup {Append(p, x) : p \in {q \in P : Len(q) = n - 1}, x \in S}

\* the lines a flat file is made of before the first run (without their "\n")
LineAlphabet ==
    { <<HdrCarbon, SP, Brace>>,        \* header of a managed block
      <<HdrOther, SP, Brace>>,         \* header of a block of the host
      <<Closing>>,                     \* the closing marker
      <<SP, Closing, SP, Key>> }       \* indented closing marker with trailing text

\* the bytes of the file whose lines are ls; the last line ends in "\n" iff nl
RECURSIVE JoinLines(_, _)
JoinLines(ls, nl) ==
    IF ls = <<>> THEN <<>>
    ELSE IF Len(ls) = 1 THEN (IF nl THEN Append(ls[1], NL) ELSE ls[1])
    ELSE Append(Head(ls), NL) \o JoinLines(Tail(ls), nl)

File(ex, d) == [exists |-> ex, data |-> d]
NoFile == File(FALSE, <<>>)

FlatFiles ==
    {NoFile} \cup {File(TRUE, JoinLines(ls, nl)) : ls \in SeqsUpTo(LineAlphabet, MaxLines),
                                                   nl \in BOOLEAN}

\* a host file holding one complete block of its own
HostBlock == <<HdrOther, SP, Brace, NL, SP, Key, NL, Closing, NL>>

\* the bundled resource carbon-as-variant: the two managed blocks, with a
\* blank line between them (Blob1) or run together without a final "\n" (Blob2)
Blob1 ==
    <<HdrCarbon, SP, Brace, NL, SP, Key, NL, Closing, NL, NL,
      HdrAngle, SP, Brace, NL, SP, Key, NL, Closing, NL>>
Blob2 ==
    <<HdrCarbon, SP, Brace, NL, Closing, NL, HdrAngle, SP, Brace, NL, Closing>>

\* variant children the base layout may hold before the first run
VariantAlphabet ==
    { Variant("intl", "English (intl)"),
      Variant("carbon", "stale"),
      Variant("carbon-angle", "English (Carbon, Angle Mod)") }

\* layouts of the host next to the base layout; the first has a variant that
\* happens to carry a managed name
OtherBefore == Layout("fr", TRUE, <<Variant("carbon", "French (Carbon)")>>)
OtherAfter == Layout("de", FALSE, <<>>)

NoDoc == Doc(FALSE, FALSE, <<>>, FALSE)
BrokenDoc == Doc(TRUE, FALSE, <<>>, FALSE)
NoBaseDoc == Doc(TRUE, TRUE, <<OtherBefore, OtherAfter>>, FALSE)
BaseDoc(has, vs) == Doc(TRUE, TRUE, <<OtherBefore, Layout(BASE_LAYOUT, has, vs), OtherAfter>>, FALSE)

SpecialDocs == {NoDoc, BrokenDoc, NoBaseDoc}
RichDocs ==
    {BaseDoc(FALSE, <<>>)} \cup {BaseDoc(TRUE, vs) : vs \in SeqsUpTo(VariantAlphabet, MaxVariants)}

\* ------------------------------------------------------------------ state
VARIABLES
    flat,        \* the target symbols file
    src,         \* the bundled symbol file next to the script
    writable,    \* whether the target symbols file can be opened for writing
    docs,        \* the rules files, by index in XKB_RULES_FILES
    backups,     \* per path, the backup files beside it: [ts, content]
    clock,       \* the second datetime.now() last returned
    pc,          \* where the running invocation stands; "idle" between runs
    action,      \* 'install' or 'remove' of the running (or last) invocation
    idx,         \* index of the rules file being processed, 0 outside the loop
    exitStatus,  \* exit status of the last finished run, -1 when none
    hist,        \* <<state before the first run, state at the end of each run>>
    runBaks,     \* [path, ts] of the backups the running (or last) run created
    written      \* the paths the running (or last) run wrote

vars == <<flat, src, writable, docs, backups, clock, pc, action, idx, exitStatus, hist, runBaks, written>>

Snapshot(act, status, at) ==
    [action |-> act, exit |-> status, flat |-> flat, docs |-> docs, failedAt |-> at]

\* host files with "\r\n" line ends: one block of the host, alone and below a
\* managed block
HostBlockCRLF == <<HdrOther, SP, Brace, CR, NL, Closing, CR, NL>>
StaleThenHostCRLF == <<HdrCarbon, SP, Brace, CR, NL, Closing, CR, NL>> \o HostBlockCRLF

\* The files before the first run: any flat file with no rules file present;
\* or a few flat files (with "\r\n" line ends among them) under the other
\* form of the source file; or a host flat file with any base layout in the
\* first rules file; or each combination of present, missing, malformed and
\* base-less rules files; or the bundled symbol file missing; or a flat file,
\* present or not, that cannot be opened for writing.
InitFiles ==
    \/ /\ flat \in FlatFiles
       /\ src = File(TRUE, Blob1)
       /\ writable = TRUE
       /\ docs = <<NoDoc, NoDoc>>
    \/ /\ flat \in {NoFile, File(TRUE, HostBlock), File(TRUE, HostBlock \o <<SP, Key>>),
                    File(TRUE, HostBlockCRLF), File(TRUE, StaleThenHostCRLF)}
       /\ src = File(TRUE, Blob2)
       /\ writable = TRUE
       /\ docs = <<NoDoc, NoDoc>>
    \/ /\ flat = File(TRUE, HostBlock)
       /\ src = File(TRUE, Blob1)
       /\ writable = TRUE
       /\ docs \in {<<a, NoDoc>> : a \in RichDocs}
    \/ /\ flat = File(TRUE, HostBlock)
       /\ src = File(TRUE, Blob1)
       /\ writable = TRUE
       /\ docs \in {<<a, b>> : a \in SpecialDocs \cup {BaseDoc(FALSE, <<>>)},
                              b \in SpecialDocs \cup {BaseDoc(TRUE, <<>>)}}
    \/ /\ flat = File(TRUE, HostBlock)
       /\ src = NoFile
       /\ writable = TRUE
       /\ docs = <<BaseDoc(FALSE, <<>>), NoDoc>>
    \/ /\ flat \in {NoFile, File(TRUE, HostBlock)}
       /\ src = File(TRUE, Blob1)
       /\ writable \in BOOLEAN
       /\ docs \in {<<BaseDoc(FALSE, <<>>), BaseDoc(TRUE, <<>>)>>,
                    <<NoDoc, BaseDoc(TRUE, <<>>)>>}

Init ==
    /\ InitFiles
    /\ backups = [p \in Paths |-> {}]
    /\ clock = 0
    /\ pc = "idle"
    /\ action = "none"
    /\ idx = 0
    /\ exitStatus = -1
    /\ hist = <<Snapshot("none", -1, 0)>>
    /\ runBaks = {}
    /\ written = {}

\* ------------------------------------------------------------------ steps
\* sys.exit(status), or the return of install()/remove() to main (status 0)
Exit(status, at) ==
    /\ pc' = "idle"
    /\ idx' = 0
    /\ exitStatus' = status
    /\ hist' = Append(hist, Snapshot(action, status, at))

\* shutil.copy2 onto path.bak_<ts>: a backup of that name is replaced
Copy2(existing, ts, content) ==
    {b \in existing : b.ts # ts} \cup {[ts |-> ts, content |-> content]}

\* mutant: the existence test of line 34 inverted, so no existing file is
\* copied
backup_file_IfMissing(path, ex, content) ==
    IF ~ex
    THEN \E ts \in clock..MaxClock :
            /\ clock' = ts
            /\ backups' = [backups EXCEPT ![path] = Copy2(@, ts, content)]
            /\ runBaks' = runBaks \cup {[path |-> path, ts |-> ts]}
    ELSE UNCHANGED <<clock, backups, runBaks>>

\* backup_file(path), the file at path holding `content` when it exists
backup_file(path, ex, content) ==
    IF ex
    THEN \E ts \in clock..MaxClock :
            /\ clock' = ts
            /\ backups' = [backups EXCEPT ![path] = Copy2(@, ts, content)]
            /\ runBaks' = runBaks \cup {[path |-> path, ts |-> ts]}
    ELSE UNCHANGED <<clock, backups, runBaks>>

\* main(): one invocation of the tool, with -i or -r
Main ==
    /\ pc = "idle"
    /\ Len(hist) <= MaxRuns
    /\ \E a \in {"install", "remove"} :
          /\ action' = a
          /\ pc' = IF a = "install" THEN "install_source" ELSE "remove_backup"
    /\ exitStatus' = -1
    /\ runBaks' = {}
    /\ written' = {}
    /\ UNCHANGED <<flat, src, writable, docs, backups, clock, idx, hist>>

\* mutant: the existence test of line 110 left out
InstallSource_Unchecked ==
    /\ pc = "install_source"
    /\ pc' = "install_backup"
    /\ UNCHANGED <<flat, src, writable, docs, backups, clock, action, idx, exitStatus,
                   hist, runBaks, written>>

\* install(): the bundled symbol file must exist
InstallSource ==
    /\ pc = "install_source"
    /\ IF src.exists
       THEN pc' = "install_backup" /\ UNCHANGED <<idx, exitStatus, hist>>
       ELSE Exit(1, 0)
    /\ UNCHANGED <<flat, src, writable, docs, backups, clock, action, runBaks, written>>

\* install(): backup_file(destination_file)
InstallBackup ==
    /\ pc = "install_backup"
    /\ backup_file(TargetPath, flat.exists, flat.data)
    /\ pc' = "install_append"
    /\ UNCHANGED <<flat, src, writable, docs, action, idx, exitStatus, hist, written>>

\* mutant: the IOError is reported and install() goes on (no sys.exit at
\* line 126)
InstallAppend_ErrorIgnored ==
    /\ pc = "install_append"
    /\ IF writable
       THEN /\ flat' = File(TRUE, AppendBlocks(flat.data, src.data))
            /\ written' = written \cup {TargetPath}
       ELSE UNCHANGED <<flat, written>>
    /\ pc' = "rules_next"
    /\ idx' = 1
    /\ UNCHANGED <<src, writable, docs, backups, clock, action, exitStatus, hist, runBaks>>

\* install(): open(destination_file, "a"), write "\n\n" and the source text;
\* an IOError on the open ends the run with status 1
InstallAppend ==
    /\ pc = "install_append"
    /\ IF writable
       THEN /\ flat' = File(TRUE, AppendBlocks(flat.data, src.data))
            /\ written' = written \cup {TargetPath}
            /\ pc' = "rules_next"
            /\ idx' = 1
            /\ UNCHANGED <<exitStatus, hist>>
       ELSE /\ Exit(1, 0)
            /\ UNCHANGED <<flat, written>>
    /\ UNCHANGED <<src, writable, docs, backups, clock, action, runBaks>>

\* remove(): if the target exists, backup_file(target_file)
RemoveBackup ==
    /\ pc = "remove_backup"
    /\ backup_file(TargetPath, flat.exists, flat.data)
    /\ IF flat.exists
       THEN pc' = "remove_clean" /\ idx' = idx
       ELSE pc' = "rules_next" /\ idx' = 1
    /\ UNCHANGED <<flat, src, writable, docs, action, exitStatus, hist, written>>

\* remove(): read the lines, drop the managed blocks, write the rest back;
\* an OSError on the open for writing ends the run with status 1
RemoveClean ==
    /\ pc = "remove_clean"
    /\ IF writable
       THEN /\ flat' = File(TRUE, RemoveBlocks(flat.data))
            /\ written' = written \cup {TargetPath}
            /\ pc' = "rules_next"
            /\ idx' = 1
            /\ UNCHANGED <<exitStatus, hist>>
       ELSE /\ Exit(1, 0)
            /\ UNCHANGED <<flat, written>>
    /\ UNCHANGED <<src, writable, docs, backups, clock, action, runBaks>>

\* mutant: a rules file that is not there ends the run (sys.exit(1) for the
\* continue of line 45)
RulesNext_MissingFatal ==
    /\ pc = "rules_next"
    /\ IF idx > NumDocs
       THEN /\ pc' = "complete" /\ idx' = 0
            /\ UNCHANGED <<clock, backups, runBaks, exitStatus, hist>>
       ELSE IF docs[idx].exists
       THEN /\ backup_file(XKB_RULES_FILES[idx], TRUE, docs[idx])
            /\ pc' = "rules_patch" /\ idx' = idx
            /\ UNCHANGED <<exitStatus, hist>>
       ELSE /\ Exit(1, idx)
            /\ UNCHANGED <<clock, backups, runBaks>>
    /\ UNCHANGED <<flat, src, writable, docs, action, written>>

\* modify_xkb_rules: the head of the loop, up to backup_file(xml_file)
RulesNext ==
    /\ pc = "rules_next"
    /\ IF idx > NumDocs
       THEN pc' = "complete" /\ idx' = 0 /\ UNCHANGED <<clock, backups, runBaks>>
       ELSE /\ backup_file(XKB_RULES_FILES[idx], docs[idx].exists, docs[idx])
            /\ IF docs[idx].exists
               THEN pc' = "rules_patch" /\ idx' = idx
               ELSE pc' = "rules_next" /\ idx' = idx + 1
    /\ UNCHANGED <<flat, src, writable, docs, action, exitStatus, hist, written>>

\* mutant: a missing base layout ends the run (sys.exit(1) for the continue
\* of line 64)
RulesPatch_NoBaseFatal ==
    /\ pc = "rules_patch"
    /\ LET doc == docs[idx] IN
       IF ~doc.wellFormed \/ FindBaseLayout(doc.layouts) = 0
       THEN /\ Exit(1, idx)
            /\ UNCHANGED <<docs, written>>
       ELSE /\ docs' = [docs EXCEPT ![idx] = Serialize(PatchTree(doc.layouts, action))]
            /\ written' = written \cup {XKB_RULES_FILES[idx]}
            /\ pc' = "rules_next" /\ idx' = idx + 1
            /\ UNCHANGED <<exitStatus, hist>>
    /\ UNCHANGED <<flat, src, writable, backups, clock, action, runBaks>>

\* mutant: a parse error skips the file (continue for the sys.exit(1) of
\* line 101)
RulesPatch_ParseErrorSkips ==
    /\ pc = "rules_patch"
    /\ LET doc == docs[idx] IN
       IF ~doc.wellFormed \/ FindBaseLayout(doc.layouts) = 0
       THEN /\ pc' = "rules_next" /\ idx' = idx + 1
            /\ UNCHANGED <<docs, written, exitStatus, hist>>
       ELSE /\ docs' = [docs EXCEPT ![idx] = Serialize(PatchTree(doc.layouts, action))]
            /\ written' = written \cup {XKB_RULES_FILES[idx]}
            /\ pc' = "rules_next" /\ idx' = idx + 1
            /\ UNCHANGED <<exitStatus, hist>>
    /\ UNCHANGED <<flat, src, writable, backups, clock, action, runBaks>>

\* modify_xkb_rules: the try block on one rules file
RulesPatch ==
    /\ pc = "rules_patch"
    /\ LET doc == docs[idx] IN
       IF ~doc.wellFormed
       THEN /\ Exit(1, idx)
            /\ UNCHANGED <<docs, written>>
       ELSE IF FindBaseLayout(doc.layouts) = 0
       THEN /\ pc' = "rules_next" /\ idx' = idx + 1
            /\ UNCHANGED <<docs, written, exitStatus, hist>>
       ELSE /\ docs' = [docs EXCEPT ![idx] = Serialize(PatchTree(doc.layouts, action))]
            /\ written' = written \cup {XKB_RULES_FILES[idx]}
            /\ pc' = "rules_next" /\ idx' = idx + 1
            /\ UNCHANGED <<exitStatus, hist>>
    /\ UNCHANGED <<flat, src, writable, backups, clock, action, runBaks>>

\* install() / remove() return and the process ends with status 0
Complete ==
    /\ pc = "complete"
    /\ Exit(0, 0)
    /\ UNCHANGED <<flat, src, writable, docs, backups, clock, action, runBaks, written>>

Next ==
    \/ Main
    \/ InstallSource
    \/ InstallBackup
    \/ InstallAppend
    \/ RemoveBackup
    \/ RemoveClean
    \/ RulesNext
    \/ RulesPatch
    \/ Complete

Spec == Init /\ [][Next]_vars

\* ------------------------------------------------------------------ vocabulary of the properties
\* a is a subsequence of b
RECURSIVE IsSubseq(_, _)
IsSubseq(a, b) ==
    IF a = <<>> THEN TRUE
    ELSE IF b = <<>> THEN FALSE
    ELSE IF Head(a) = Head(b) THEN IsSubseq(Tail(a), Tail(b))
    ELSE IsSubseq(a, Tail(b))

\* a line without its line terminator
LineText(line) ==
    IF line # <<>> /\ line[Len(line)] = NL THEN SubSeq(line, 1, Len(line) - 1) ELSE line

LineTexts(data) == LET ls == readlines(data) IN [i \in 1..Len(ls) |-> LineText(ls[i])]

NonWhite(data) == LET Black(t) == t \notin Whitespace IN SelectSeq(data, Black)

\* the first thing on the line after its leading whitespace, "" on a blank
\* line: what the trimmed content of the line starts with
FirstOf(line) ==
    LET at == {i \in 1..Len(line) : line[i] \notin Whitespace}
    IN  IF at = {} THEN "" ELSE line[CHOOSE i \in at : \A j \in at : i <= j]

\* header lines, as the data model words them: trimmed content starting with
\* xkb_symbols "<id>"
HeaderOfManaged(line) == FirstOf(line) \in {HdrCarbon, HdrAngle}
HeaderOfOther(line) == FirstOf(line) = HdrOther
ClosingLine(line) == FirstOf(line) = Closing

HasManagedHeader(data) ==
    LET ls == readlines(data) IN \E i \in 1..Len(ls) : HeaderOfManaged(ls[i])

\* The lines that belong to blocks of the host: a line belongs to the block of
\* the nearest header at or above it, up to and including the first closing
\* line.  `owner` is the kind of block the previous line left open.
RECURSIVE HostLinesFrom(_, _)
HostLinesFrom(lines, owner) ==
    IF lines = <<>> THEN <<>>
    ELSE LET line == Head(lines)
             own == IF HeaderOfManaged(line) THEN "managed"
                    ELSE IF HeaderOfOther(line) THEN "other" ELSE owner
             open == IF ClosingLine(line) THEN "none" ELSE own
         IN  (IF own = "other" THEN <<LineText(line)>> ELSE <<>>)
             \o HostLinesFrom(Tail(lines), open)

HostLines(data) == HostLinesFrom(readlines(data), "none")

\* every managed header is followed by a closing line with no header of a
\* host block in between (`open`: a managed block is open)
RECURSIVE ManagedClosedFrom(_, _)
ManagedClosedFrom(lines, open) ==
    IF lines = <<>> THEN TRUE
    ELSE LET line == Head(lines)
             o1 == open \/ HeaderOfManaged(line)
         IN  /\ ~(o1 /\ HeaderOfOther(line))
             /\ ManagedClosedFrom(Tail(lines), o1 /\ ~ClosingLine(line))

ManagedClosed(data) == ManagedClosedFrom(readlines(data), FALSE)

\* the data is blank lines and managed blocks, each closed (`open`: inside one)
RECURSIVE ManagedOnlyFrom(_, _)
ManagedOnlyFrom(lines, open) ==
    IF lines = <<>> THEN ~open
    ELSE LET line == Head(lines) IN
         IF HeaderOfManaged(line) THEN ManagedOnlyFrom(Tail(lines), TRUE)
         ELSE IF open THEN ManagedOnlyFrom(Tail(lines), ~ClosingLine(line))
         ELSE strip(line) = <<>> /\ ManagedOnlyFrom(Tail(lines), FALSE)

ManagedOnly(data) == ManagedOnlyFrom(readlines(data), FALSE)

\* a rules file that exists and does not parse
Broken(doc) == doc.exists /\ ~doc.wellFormed

\* the base layout of a rules document, and the variants under it
HasBase(doc) == doc.exists /\ doc.wellFormed /\ FindBaseLayout(doc.layouts) # 0
BaseOf(doc) == doc.layouts[FindBaseLayout(doc.layouts)]
CountOf(variants, id) == Cardinality({j \in 1..Len(variants) : variants[j].name = id})
Unmanaged(variants) == LET Keep(v) == v.name \notin ManagedIds IN SelectSeq(variants, Keep)

\* the runs finished so far are hist[2..]; run k started from hist[k-1]; a
\* run is recorded at the step that ends it, so what holds of the recorded
\* runs whenever no run is under way holds of them in every state
Ran(k, act) == hist[k].action = act /\ hist[k].exit = 0
\* the flat-file stage of a run of `act` from the files `pre` cannot open the
\* flat file for writing
FlatStageFails(pre, act) == ~writable /\ (act = "install" \/ pre.flat.exists)
\* the state the running (or last) run started from
RunStart == IF pc = "idle" /\ Len(hist) > 1 THEN hist[Len(hist) - 1] ELSE hist[Len(hist)]

\* ------------------------------------------------------------------ C1
\* C1: Install is idempotent on both targets: a second successful Install()
\* right after a successful Install() leaves the flat file (whitespace aside)
\* and the tree of every rules document as the first one left them.
C1_InstallTwiceAsOnce ==
    \A k \in 2..(Len(hist) - 1) :
        (Ran(k, "install") /\ Ran(k + 1, "install")) =>
            /\ NonWhite(hist[k + 1].flat.data) = NonWhite(hist[k].flat.data)
            /\ \A i \in 1..NumDocs : hist[k + 1].docs[i].layouts = hist[k].docs[i].layouts

\* ------------------------------------------------------------------ C2
\* C2: after n >= 1 successful Install() runs and then one successful Remove(),
\* no line of the flat file is a managed block header and the base layout of
\* every rules document holds no variant with a managed name.
C2_RemoveAfterInstalls ==
    pc = "idle" => \A k \in 3..Len(hist) :
        (Ran(k, "remove") /\ Ran(k - 1, "install")) =>
            /\ ~HasManagedHeader(hist[k].flat.data)
            /\ \A i \in 1..NumDocs : HasBase(hist[k].docs[i]) =>
                  \A id \in ManagedIds : CountOf(BaseOf(hist[k].docs[i]).variants, id) = 0

\* reached: two installs and a remove over a flat file and a rules document
\* that held managed entries from the start
C2_Witness ==
    /\ Len(hist) = 4
    /\ Ran(2, "install") /\ Ran(3, "install") /\ Ran(4, "remove")
    /\ \/ HasManagedHeader(hist[1].flat.data)
       \/ /\ HasBase(hist[1].docs[1])
          /\ CountOf(BaseOf(hist[1].docs[1]).variants, "carbon") = 2

C5_ExactlyOneOrNone ==
    \A i \in 1..NumDocs :
        XKB_RULES_FILES[i] \in written =>
            \A id \in ManagedIds :
                CountOf(BaseOf(docs[i]).variants, id) = (IF action = "install" THEN 1 ELSE 0)

\* reached: an install has written a document that held two variants named
\* carbon, and a later remove has written it again
C5_Witness ==
    /\ HasBase(hist[1].docs[1])
    /\ CountOf(BaseOf(hist[1].docs[1]).variants, "carbon") = 2
    /\ Len(hist) >= 2 /\ Ran(2, "install")
    /\ action = "remove"
    /\ XKB_RULES_FILES[1] \in written

\* ------------------------------------------------------------------ C6
\* C6 as claimed: over a flat file without managed headers, a successful
\* Install() and then a successful Remove() leave exactly the bytes the file
\* had before.
C6_RoundTripExact ==
    \A k \in 3..Len(hist) :
        ( /\ Ran(k - 1, "install") /\ Ran(k, "remove")
          /\ hist[k - 2].flat.exists
          /\ ~HasManagedHeader(hist[k - 2].flat.data) )
        => hist[k].flat.data = hist[k - 2].flat.data

\* C6 as amended: with a source file made of closed managed blocks and blank
\* lines, they leave the text the file had before, its line ends written as
\* "\n", followed by newlines only, at least the two that Install() wrote: no
\* line of a managed block remains.
C6_RoundTripUpToNewlines ==
    pc = "idle" => \A k \in 3..Len(hist) :
        ( /\ Ran(k - 1, "install") /\ Ran(k, "remove")
          /\ hist[k - 2].flat.exists
          /\ ~HasManagedHeader(hist[k - 2].flat.data)
          /\ ManagedOnly(src.data) )
        => LET d0 == read(hist[k - 2].flat.data)
               d == hist[k].flat.data
           IN  /\ startswith(d, d0)
               /\ Len(d) >= Len(d0) + 2
               /\ \A j \in (Len(d0) + 1)..Len(d) : d[j] = NL

\* reached: the install and the remove ran over a file holding one host block
C6_Witness ==
    /\ Len(hist) = 3 /\ Ran(2, "install") /\ Ran(3, "remove")
    /\ hist[1].flat = File(TRUE, HostBlock)
    /\ flat.data # hist[1].flat.data

\* ------------------------------------------------------------------ C7
\* C7: every file the running (or last) run has written and that existed when
\* the run started has a backup created by this run, holding the contents the
\* file had when the run started.
C7_BackupBeforeWrite ==
    /\ (TargetPath \in written /\ RunStart.flat.exists) =>
          \E b \in backups[TargetPath] :
              /\ [path |-> TargetPath, ts |-> b.ts] \in runBaks
              /\ b.content = RunStart.flat.data
    /\ \A i \in 1..NumDocs :
          XKB_RULES_FILES[i] \in written =>
              \E b \in backups[XKB_RULES_FILES[i]] :
                  /\ [path |-> XKB_RULES_FILES[i], ts |-> b.ts] \in runBaks
                  /\ b.content = RunStart.docs[i]

\* reached: one run has written the flat file and both rules files, all of
\* which existed when it started
C7_Witness ==
    /\ written = Paths
    /\ RunStart.flat.exists

\* ------------------------------------------------------------------ C8
\* C8: a run leaves a rules document without base layout as it was, without
\* writing it; and when the source file is there, the flat file can be
\* written and no rules file is malformed, the run ends with status 0 having written every later rules
\* document that has the base layout.
C8_NoBaseIsSkipped ==
    (pc = "idle" /\ Len(hist) > 1) =>
        LET pre == hist[Len(hist) - 1]
            post == hist[Len(hist)]
            nothingElseFails ==
                /\ post.action = "install" => src.exists
                /\ ~FlatStageFails(pre, post.action)
                /\ \A j \in 1..NumDocs : ~Broken(pre.docs[j])
        IN  \A i \in 1..NumDocs :
                (pre.docs[i].exists /\ pre.docs[i].wellFormed
                    /\ FindBaseLayout(pre.docs[i].layouts) = 0) =>
                  /\ docs[i] = pre.docs[i]
                  /\ XKB_RULES_FILES[i] \notin written
                  /\ nothingElseFails =>
                        /\ exitStatus = 0
                        /\ \A j \in (i + 1)..NumDocs : HasBase(pre.docs[j]) =>
                              /\ XKB_RULES_FILES[j] \in written
                              /\ docs[j].serialized

\* reached: a run met a first rules document without base layout, went on to
\* write the second one and ended with status 0
C8_Witness ==
    /\ pc = "idle" /\ Len(hist) > 1
    /\ hist[Len(hist) - 1].docs[1] = NoBaseDoc
    /\ XKB_RULES_FILES[2] \in written
    /\ exitStatus = 0

\* ------------------------------------------------------------------ C9
\* C9 as claimed: Remove() leaves a rules document whose base layout has no
\* variantList untouched: the file is not written and holds what it held.
C9_RemoveLeavesFileAlone ==
    \A i \in 1..NumDocs :
        (action = "remove" /\ HasBase(RunStart.docs[i]) /\ ~BaseOf(RunStart.docs[i]).hasVL) =>
            /\ XKB_RULES_FILES[i] \notin written
            /\ docs[i] = RunStart.docs[i]

\* C9 as amended: Remove() leaves the element tree of such a document as it
\* was, with no variantList created; a Remove() that ends with status 0 has
\* nevertheless written the file back from the parsed tree.
C9_RemoveLeavesTreeAlone ==
    \A i \in 1..NumDocs :
        (action = "remove" /\ HasBase(RunStart.docs[i]) /\ ~BaseOf(RunStart.docs[i]).hasVL) =>
            /\ docs[i].layouts = RunStart.docs[i].layouts
            /\ (pc = "idle" /\ exitStatus = 0) =>
                  /\ XKB_RULES_FILES[i] \in written
                  /\ docs[i].serialized

\* reached: a Remove() has ended after processing a host document whose base
\* layout has no variantList
C9_Witness ==
    /\ action = "remove" /\ pc = "idle" /\ exitStatus = 0
    /\ HasBase(RunStart.docs[1]) /\ ~BaseOf(RunStart.docs[1]).hasVL
    /\ ~RunStart.docs[1].serialized

\* ------------------------------------------------------------------ C10
\* the flat file as the flat-file stage of a run leaves it
PatchedFlat(pre, act) ==
    IF act = "install" THEN File(TRUE, AppendBlocks(pre.flat.data, src.data))
    ELSE IF pre.flat.exists THEN File(TRUE, RemoveBlocks(pre.flat.data))
    ELSE pre.flat

\* C10: a run that reaches a malformed rules document ends with status 1;
\* no later rules document is backed up or written, and the flat file and
\* the earlier rules documents hold what the run's patches made of them.
C10_ParseFailureAborts ==
    (pc = "idle" /\ Len(hist) > 1) =>
        LET pre == hist[Len(hist) - 1]
            act == hist[Len(hist)].action
        IN  \A i \in 1..NumDocs :
                ( /\ Broken(pre.docs[i])
                  /\ \A j \in 1..(i - 1) : ~Broken(pre.docs[j])
                  /\ act = "install" => src.exists
                  /\ ~FlatStageFails(pre, act) ) =>
                  /\ exitStatus = 1
                  /\ docs[i] = pre.docs[i]
                  /\ \A j \in (i + 1)..NumDocs :
                        /\ docs[j] = pre.docs[j]
                        /\ XKB_RULES_FILES[j] \notin written
                        /\ \A b \in runBaks : b.path # XKB_RULES_FILES[j]
                  /\ flat = PatchedFlat(pre, act)
                  /\ \A j \in 1..(i - 1) : HasBase(pre.docs[j]) =>
                        docs[j] = Serialize(PatchTree(pre.docs[j].layouts, act))

\* reached: a run failed on the second rules document after writing the flat
\* file and the first rules document
C10_Witness ==
    /\ pc = "idle" /\ exitStatus = 1
    /\ hist[Len(hist)].failedAt = 2
    /\ {TargetPath, XKB_RULES_FILES[1]} \subseteq written

\* ------------------------------------------------------------------ C11
\* C11: an Install() that finds no bundled symbol file ends with status 1
\* before anything else happens: the flat file and the rules documents hold
\* what they held, nothing has been written and no backup has been made.
C11_MissingSourceIsFatal ==
    (action = "install" /\ ~src.exists) =>
        /\ pc \in {"install_source", "idle"}
        /\ pc = "idle" => exitStatus = 1
        /\ flat = RunStart.flat
        /\ docs = RunStart.docs
        /\ written = {}
        /\ runBaks = {}

\* reached: an Install() has ended without the symbol file, over a flat file
\* and a rules document that exist
C11_Witness ==
    /\ pc = "idle" /\ action = "install" /\ exitStatus = 1
    /\ ~src.exists
    /\ flat.exists /\ docs[1].exists

\* ------------------------------------------------------------------ C12
\* C12: a backup, once made, stays as it is: no step of any run, whatever the
\* clock reads, takes a backup away or puts other contents under its name.
C12_BackupsPermanent ==
    [][\A p \in Paths : backups[p] \subseteq backups'[p]]_vars

\* ------------------------------------------------------------------ C13
\* the variants are one per descriptor, each with the descriptor's name and
\* description, and nothing else
OnePerDescriptor(variants) ==
    /\ Len(variants) = Len(VARIANTS_TO_INSTALL)
    /\ \A n \in 1..Len(VARIANTS_TO_INSTALL) :
          Cardinality({j \in 1..Len(variants) :
              /\ variants[j].name = VARIANTS_TO_INSTALL[n].name
              /\ variants[j].desc = VARIANTS_TO_INSTALL[n].desc}) = 1

\* C13: a successful Install() over a rules document whose base layout has no
\* variantList leaves that layout with a variantList of exactly one variant
\* per descriptor, named and described as the descriptor says; a successful
\* Remove() right after it leaves the variantList in place with no variant.
C13_CreatesThenEmpties ==
    pc = "idle" => \A k \in 2..Len(hist) : \A i \in 1..NumDocs :
        ( /\ Ran(k, "install")
          /\ HasBase(hist[k - 1].docs[i])
          /\ ~BaseOf(hist[k - 1].docs[i]).hasVL ) =>
            /\ HasBase(hist[k].docs[i])
            /\ BaseOf(hist[k].docs[i]).hasVL
            /\ OnePerDescriptor(BaseOf(hist[k].docs[i]).variants)
            /\ (k < Len(hist) /\ Ran(k + 1, "remove")) =>
                  /\ HasBase(hist[k + 1].docs[i])
                  /\ BaseOf(hist[k + 1].docs[i]).hasVL
                  /\ BaseOf(hist[k + 1].docs[i]).variants = <<>>

\* reached: an install and then a remove over a document whose base layout
\* came without variantList
C13_Witness ==
    /\ Len(hist) = 3 /\ Ran(2, "install") /\ Ran(3, "remove")
    /\ HasBase(hist[1].docs[1]) /\ ~BaseOf(hist[1].docs[1]).hasVL
    /\ BaseOf(hist[2].docs[1]).variants # <<>>
    /\ BaseOf(docs[1]).hasVL

\* ------------------------------------------------------------------ C14
\* a line ends a managed block: its trimmed content is the closing marker
\* (`exact`), or starts with it
EndsBlock(line, exact) ==
    IF exact THEN strip(line) = <<Closing>> ELSE ClosingLine(line)

\* the lines of ls outside managed blocks, in order; line i lies in a managed
\* block when a managed header stands at or above it with no line that ends
\* the block in between
OutsideBlocks(ls, exact) ==
    LET header == [i \in 1..Len(ls) |-> HeaderOfManaged(ls[i])]
        ends == [i \in 1..Len(ls) |-> EndsBlock(ls[i], exact)]
        inBlock == [i \in 1..Len(ls) |->
                       \E h \in 1..i : header[h] /\ \A j \in h..(i - 1) : ~ends[j]]
        Outside(i) == ~inBlock[i]
        kept == SelectSeq([i \in 1..Len(ls) |-> i], Outside)
    IN  [k \in 1..Len(kept) |-> ls[kept[k]]]

\* a Remove() has ended after rewriting the flat file
RemoveHasCleaned == pc = "idle" /\ action = "remove" /\ TargetPath \in written

\* C14 as claimed: what Remove() writes back is the lines outside the
\* managed blocks, one after the other in their order, a block running from
\* a managed header to the first line whose trimmed content equals the
\* closing marker.
C14_BlockEndsAtExactMarker ==
    RemoveHasCleaned =>
        flat.data = writelines(OutsideBlocks(readlines(RunStart.flat.data), TRUE))

\* C14 as amended: the same, a block running from a managed header to the
\* first line whose trimmed content starts with the closing marker.
C14_BlockEndsAtMarkerPrefix ==
    RemoveHasCleaned =>
        flat.data = writelines(OutsideBlocks(readlines(RunStart.flat.data), FALSE))

\* reached: a managed block ended at a line with text after the marker, and
\* the line below it was kept
C14_Witness ==
    /\ RemoveHasCleaned
    /\ LET ls == readlines(RunStart.flat.data)
       IN  /\ Len(ls) = 3
           /\ HeaderOfManaged(ls[1])
           /\ ClosingLine(ls[2]) /\ strip(ls[2]) # <<Closing>>
           /\ readlines(flat.data) = <<ls[3]>>

\* ------------------------------------------------------------------ C15
\* line h of ls is a managed header with no closing line below it
Unterminated(ls, h) ==
    /\ HeaderOfManaged(ls[h])
    /\ \A j \in h..Len(ls) : ~ClosingLine(ls[j])

\* C15: when a managed header of the flat file has no closing line below it,
\* the lines Remove() writes back are all taken, in order, from the lines
\* above that header: the header and every line below it are gone, blocks of
\* the host included; the run goes on to the rules files and, when none of
\* them is malformed, ends with status 0.
C15_UnterminatedDropsRest ==
    RemoveHasCleaned =>
        LET ls == readlines(RunStart.flat.data)
        IN  \A h \in 1..Len(ls) :
                Unterminated(ls, h) =>
                    /\ IsSubseq(readlines(flat.data), SubSeq(ls, 1, h - 1))
                    /\ hist[Len(hist)].failedAt # 0 \/ exitStatus = 0
                    /\ (\A i \in 1..NumDocs : ~Broken(RunStart.docs[i])) => exitStatus = 0

\* reached: a Remove() ended with status 0 over a flat file that held a line
\* of the host above an unterminated managed header and the header of a host
\* block below it, and only the line above was written back
C15_Witness ==
    /\ RemoveHasCleaned /\ exitStatus = 0
    /\ LET ls == readlines(RunStart.flat.data)
       IN  /\ Len(ls) = 3
           /\ ~HeaderOfManaged(ls[1])
           /\ Unterminated(ls, 2)
           /\ HeaderOfOther(ls[3])
           /\ readlines(flat.data) = <<ls[1]>>

\* ------------------------------------------------------------------ C16
\* C16: a Remove() over a flat file with no managed header writes back the
\* bytes the file held, closing lines included.
C16_NoHeaderSameBytes ==
    (RemoveHasCleaned /\ ~HasManagedHeader(RunStart.flat.data)) =>
        flat.data = RunStart.flat.data

\* ------------------------------------------------------------------ C17
\* C17: once an Install() has written a rules document, the variantList of
\* the base layout ends with the variants of the descriptors, one each, in
\* the order of the descriptors, wherever variants of those names stood
\* before.
C17_ManagedVariantsLast ==
    \A i \in 1..NumDocs :
        (action = "install" /\ XKB_RULES_FILES[i] \in written) =>
            LET vs == BaseOf(docs[i]).variants
                n == Len(VARIANTS_TO_INSTALL)
            IN  /\ Len(vs) >= n
                /\ \A m \in 1..n :
                      vs[Len(vs) - n + m] =
                          Variant(VARIANTS_TO_INSTALL[m].name, VARIANTS_TO_INSTALL[m].desc)
                /\ \A j \in 1..(Len(vs) - n) : vs[j].name \notin ManagedIds

\* reached: an Install() has written a document in which a managed variant
\* stood above a variant of the host
C17_Witness ==
    /\ action = "install" /\ XKB_RULES_FILES[1] \in written
    /\ HasBase(RunStart.docs[1])
    /\ LET vs0 == BaseOf(RunStart.docs[1]).variants
       IN  /\ Len(vs0) = 2
           /\ vs0[1].name \in ManagedIds
           /\ vs0[2].name \notin ManagedIds
           /\ BaseOf(docs[1]).variants[1] = vs0[2]

\* ------------------------------------------------------------------ C18
\* C18: an Install() that cannot open the flat file for appending ends with
\* status 1 without reaching the rules files: no rules document is backed
\* up, parsed or written, and each holds what it held.
C18_AppendFailureStopsInstall ==
    (action = "install" /\ src.exists /\ ~writable) =>
        /\ pc \in {"install_source", "install_backup", "install_append", "idle"}
        /\ pc = "idle" => exitStatus = 1
        /\ docs = RunStart.docs
        /\ written = {}
        /\ \A b \in runBaks : b.path = TargetPath

\* reached: such an Install() has ended, its backup of the flat file made,
\* with a rules document it would have patched
C18_Witness ==
    /\ pc = "idle" /\ action = "install" /\ exitStatus = 1
    /\ src.exists /\ ~writable
    /\ runBaks # {}
    /\ HasBase(docs[2]) /\ ~docs[2].serialized

\* ------------------------------------------------------------------ C19
\* run k was a Remove() that rewrote the flat file
Cleaned(k) ==
    /\ hist[k].action = "remove"
    /\ hist[k - 1].flat.exists
    /\ hist[k].exit = 0 \/ hist[k].failedAt # 0

\* C19: the flat file a Remove() has written holds no managed header line,
\* whatever it held before; and a second Remove() right after it leaves the
\* bytes of the flat file as the first one wrote them.
C19_RemoveTwiceAsOnce ==
    pc = "idle" => \A k \in 2..Len(hist) :
        Cleaned(k) =>
            /\ ~HasManagedHeader(hist[k].flat.data)
            /\ (k < Len(hist) /\ Cleaned(k + 1)) => hist[k + 1].flat = hist[k].flat

\* reached: two Remove() runs in a row, the first of which took a managed
\* block out of a flat file and left lines of the host in it
C19_Witness ==
    /\ Len(hist) = 3 /\ Cleaned(2) /\ Cleaned(3)
    /\ HasManagedHeader(hist[1].flat.data)
    /\ hist[2].flat.data # <<>>
    /\ flat = hist[2].flat

\* ------------------------------------------------------------------ C20
\* C20: a run passes over a file that is not there.  A missing rules file is
\* still missing after the run, with no backup and no write, and so is the
\* flat file after a Remove(); every rules document with a base layout that
\* comes later has been written, and the run has ended with status 0, when
\* the run meets no failure elsewhere (source file there, flat file
\* writable, no malformed rules file).
C20_MissingIsSkipped ==
    (pc = "idle" /\ Len(hist) > 1) =>
        LET pre == hist[Len(hist) - 1]
            act == hist[Len(hist)].action
            untouched(path) == path \notin written /\ \A b \in runBaks : b.path # path
            noFailure ==
                /\ act = "install" => src.exists
                /\ ~FlatStageFails(pre, act)
                /\ \A j \in 1..NumDocs : ~Broken(pre.docs[j])
            rulesDoneFrom(i) ==
                \A j \in i..NumDocs : HasBase(pre.docs[j]) =>
                    /\ XKB_RULES_FILES[j] \in written
                    /\ docs[j] = Serialize(PatchTree(pre.docs[j].layouts, act))
        IN  /\ \A i \in 1..NumDocs :
                  ~pre.docs[i].exists =>
                      /\ docs[i] = pre.docs[i]
                      /\ untouched(XKB_RULES_FILES[i])
                      /\ noFailure => (exitStatus = 0 /\ rulesDoneFrom(i + 1))
            /\ (act = "remove" /\ ~pre.flat.exists) =>
                  /\ flat = pre.flat
                  /\ untouched(TargetPath)
                  /\ noFailure => (exitStatus = 0 /\ rulesDoneFrom(1))

\* reached: a Remove() with neither the flat file nor the first rules file
\* there has patched the second rules file and ended with status 0
C20_Witness ==
    /\ pc = "idle" /\ action = "remove" /\ exitStatus = 0
    /\ ~RunStart.flat.exists /\ ~flat.exists
    /\ ~RunStart.docs[1].exists
    /\ XKB_RULES_FILES[2] \in written
    /\ written = {XKB_RULES_FILES[2]}

====
